---- MODULE Spec2Model ----
(***************************************************************************)
(* Model of src/src/potential.py: the softened-Coulomb lattice potential   *)
(* (V_total), the boundary-clamped discretizer                             *)
(* (discretize_potential_with_boundaries), the piecewise evaluator         *)
(* (V_discret_function) and the unit conversion (convert_energy).          *)
(*                                                                         *)
(* Numbers.  Positions and potential samples are exact: a position is an   *)
(* integer number of length units, a quotient is a fraction                *)
(* [num |-> p, den |-> q] with q > 0, and [num |-> 0, den |-> 0] is the    *)
(* result of 0.0/0 (NaN).  Python indices are kept zero-based; the TLA+    *)
(* sequence holding an array a stores a[i] at position i+1.                *)
(***************************************************************************)
EXTENDS Integers, Sequences, FiniteSets, Bags, TLC

\* ---------------------------------------------------------------- bounds
MaxL == 2
MaxN == 3
MaxVoisinage == 4
MaxA == 2
MaxX == 5
MaxLen == 4
MaxMarches == 2

\* Potential samples handed to the discretizer (attractive potential: <= 0).
Samples == {-3, -1, 0}
\* Unit tags: the two supported ones and an unsupported one.
Units == {"eV", "J", "xyz"}

\* ------------------------------------------------------- program constants
Q == 1
e_mantissa == 1602176634
e_exp10 == -28

\* ------------------------------------------------------------- fractions
Frac(p, q) == [num |-> p, den |-> q]
FromInt(k) == Frac(k, 1)
Zero == Frac(0, 1)
NaN == Frac(0, 0)
IsNaN(r) == r.den = 0
RLe(r, s) == r.num * s.den <= s.num * r.den
RLt(r, s) == r.num * s.den < s.num * r.den
REq(r, s) == ~IsNaN(r) /\ ~IsNaN(s) /\ r.num * s.den = s.num * r.den
RAdd(r, s) == Frac(r.num * s.den + s.num * r.den, r.den * s.den)
RHalf(r) == Frac(r.num, 2 * r.den)

Abs(k) == IF k < 0 THEN -k ELSE k

\* ------------------------------------------------------- convert_energy
\* A decimal number m * 10^e10; eV_to_J = e = 1.602176634e-19.
Dec(m, x) == [m |-> m, e10 |-> x]
eV_to_J == Dec(e_mantissa, e_exp10)
DecMul(u, v) == Dec(u.m * v.m, u.e10 + v.e10)
None == Dec(0, 0)

\* Mutant of convert_energy: the "J" branch forgets the factor eV_to_J.
convert_energy_unscaled(unit_tag, v) ==
    IF unit_tag = "eV" THEN [raised |-> "", value |-> v]
    ELSE IF unit_tag = "J" THEN [raised |-> "", value |-> v]
    ELSE [raised |-> "ValueError", value |-> None]

convert_energy(unit_tag, v) ==
    IF unit_tag = "eV" THEN [raised |-> "", value |-> v]
    ELSE IF unit_tag = "J" THEN [raised |-> "", value |-> DecMul(v, eV_to_J)]
    ELSE [raised |-> "ValueError", value |-> None]

\* ------------------------------------------------------------- V_total
\* One softened-Coulomb term -Q*e^2*k / sqrt((x - x0)^2 + a^2) / e: the factors
\* e and k are the same in every term, so a term is determined by Q and the
\* softened squared distance r2 = (x - x0)^2 + a^2.
coulomb_softened(px, x0, q, soft) ==
    [Q |-> q, r2 |-> (px - x0) * (px - x0) + soft * soft]

\* Mutant of floor_index: floor(x / L), the half-spacing shift forgotten.
floor_index_unshifted(px, l) == px \div l

\* j_c = int(floor(x / L - 0.5)) = floor((2x - L) / (2L))
floor_index(px, l) == (2 * px - l) \div (2 * l)

Min(m, k) == IF m <= k THEN m ELSE k
Max(m, k) == IF m >= k THEN m ELSE k

central_index(px, l, nb) == Max(0, Min(nb - 1, floor_index(px, l)))

\* Mutant of charge_position: the lattice starts at 0 instead of L.
charge_position_from_zero(j, l) == j * l

charge_position(j, l) == (j + 1) * l

\* Mutant of neighbour_range: range(j_c - voisinage, j_c + voisinage), the
\* exclusive stop not compensated.
neighbour_range_short(jc, vois) ==
    [k \in 1..(2 * vois) |-> jc - vois + k - 1]

\* range(j_c - voisinage, j_c + voisinage + 1) as the sequence of its values
neighbour_range(jc, vois) ==
    [k \in 1..(2 * vois + 1) |-> jc - vois + k - 1]

RECURSIVE sum_loop(_, _, _, _, _, _, _, _)
\* The for loop of V_total: acc.V is the running sum (the bag of its terms),
\* acc.summed the indices j whose term was added, in order.
sum_loop(js, k, acc, px, q, soft, l, nb) ==
    IF k > Len(js) THEN acc
    ELSE LET j == js[k]
             nxt == IF 0 <= j /\ j < nb
                    THEN [V |-> acc.V (+) SetToBag({coulomb_softened(px, charge_position(j, l), q, soft)}),
                          summed |-> Append(acc.summed, j)]
                    ELSE acc
         IN sum_loop(js, k + 1, nxt, px, q, soft, l, nb)

V_total(px, q, soft, l, nb, vois) ==
    LET jc == central_index(px, l, nb)
        r == sum_loop(neighbour_range(jc, vois), 1,
                      [V |-> EmptyBag, summed |-> <<>>], px, q, soft, l, nb)
    IN [V |-> r.V, summed |-> r.summed, j_c |-> jc]

\* -------------------------------- discretize_potential_with_boundaries
\* np.linspace(start, stop, num): start + i * (stop - start) / (num - 1)
linspace(start, stop, num) ==
    [i \in 1..num |-> Frac(start * (num - 1) + (i - 1) * (stop - start), num - 1)]

\* x_centers = (x_edges[:-1] + x_edges[1:]) / 2
centers_of(edges) ==
    [i \in 1..(Len(edges) - 1) |-> RHalf(RAdd(edges[i], edges[i + 1]))]

\* Mutant of bin_mask: (x >= x_start) & (x <= x_end), closed on both sides.
bin_mask_closed(grid, x_start, x_end) ==
    [k \in 1..Len(grid) |-> RLe(x_start, FromInt(grid[k])) /\ RLe(FromInt(grid[k]), x_end)]

\* Mutant of bin_mask: (x > x_start) & (x <= x_end), half-open on the left.
bin_mask_left_open(grid, x_start, x_end) ==
    [k \in 1..Len(grid) |-> RLt(x_start, FromInt(grid[k])) /\ RLe(FromInt(grid[k]), x_end)]

\* mask = (x >= x_start) & (x < x_end)
bin_mask(grid, x_start, x_end) ==
    [k \in 1..Len(grid) |-> RLe(x_start, FromInt(grid[k])) /\ RLt(FromInt(grid[k]), x_end)]

RECURSIVE bool_index(_, _, _)
\* V_continuous[mask]
bool_index(vals, mask, k) ==
    IF k > Len(vals) THEN <<>>
    ELSE (IF mask[k] THEN <<vals[k]>> ELSE <<>>) \o bool_index(vals, mask, k + 1)

RECURSIVE seq_sum(_)
seq_sum(s) == IF s = <<>> THEN 0 ELSE Head(s) + seq_sum(Tail(s))

\* np.mean: sum / count; of an empty selection 0.0 / 0 = nan (a warning, no error)
np_mean(s) == Frac(seq_sum(s), Len(s))

\* Mutant of is_boundary: the last bin tested as index n_total (off by one).
is_boundary_off_by_one(i, n_total) == i = 0 \/ i = n_total

is_boundary(i, n_total) == i = 0 \/ i = n_total - 1

step_height(i, n_total, vals, mask) ==
    IF is_boundary(i, n_total) THEN Zero ELSE np_mean(bool_index(vals, mask, 1))

discretize_potential_with_boundaries(grid, vals, n) ==
    LET n_total == n + 2
        edges == linspace(grid[1], grid[Len(grid)], n_total + 1)
        masks == [i \in 1..n_total |-> bin_mask(grid, edges[i], edges[i + 1])]
    IN [x_centers |-> centers_of(edges),
        V_discrete |-> [i \in 1..n_total |-> step_height(i - 1, n_total, vals, masks[i])],
        x_edges |-> edges,
        masks |-> masks]

\* --------------------------------------------------- V_discret_function
\* np.searchsorted(x_edges, q, side='right'): the number of edges <= q
searchsorted_right(edges, q) == Cardinality({i \in 1..Len(edges) : RLe(edges[i], q)})

\* Mutant of np_clip: only the lower bound is enforced.
np_clip_lower_only(k, lo, hi) == Max(lo, k)

np_clip(k, lo, hi) == Max(lo, Min(hi, k))

\* Mutant of bin_index: the insertion point used as the bin index (no -1).
bin_index_unshifted(edges, q, nvals) == np_clip(searchsorted_right(edges, q), 0, nvals - 1)

bin_index(edges, q, nvals) == np_clip(searchsorted_right(edges, q) - 1, 0, nvals - 1)

\* V_vals[idx]: a negative index counts from the end, an index outside
\* [-len, len) raises IndexError.
take(vals, idx) ==
    IF 0 <= idx /\ idx < Len(vals) THEN [raised |-> "", value |-> vals[idx + 1]]
    ELSE IF -Len(vals) <= idx /\ idx < 0 THEN [raised |-> "", value |-> vals[Len(vals) + idx + 1]]
    ELSE [raised |-> "IndexError", value |-> NaN]

V_discret_function(q, edges, vals) ==
    LET idx == bin_index(edges, q, Len(vals))
        r == take(vals, idx)
    IN [indices |-> idx, raised |-> r.raised, value |-> r.value]

\* ------------------------------------------------------------- inputs
RECURSIVE IncreasingFrom(_, _)
\* Strictly increasing sequences of length len with every entry in lo..MaxX
IncreasingFrom(lo, len) ==
    IF len = 0 THEN {<<>>}
    ELSE UNION {{<<p>> \o s : s \in IncreasingFrom(p + 1, len - 1)} : p \in lo..MaxX}

Grids == UNION {IncreasingFrom(0, len) : len \in 2..MaxLen}

SeqsOf(S, len) == [1..len -> S]

Decimals == {Dec(m, x) : m \in {-1, 0, 1}, x \in {-1, 0, 1}}

\* Query points of the evaluator: every bin centre, every edge, every sample
\* position, and points to the left and right of the edge range.
Queries(grid, edges, centers) ==
    {centers[i] : i \in 1..Len(centers)}
    \cup {edges[i] : i \in 1..Len(edges)}
    \cup {FromInt(grid[1] - d) : d \in {1, 100}}
    \cup {FromInt(grid[Len(grid)] + d) : d \in {1, 100}}

\* -------------------------------------------------------------- state
VARIABLES pc, raised,
          unit, val, V_converted,
          xi, a, L, N, voisinage, V, summed, j_c,
          x, V_continuous, n_marches, x_marches, V_marches, x_edges, mask,
          x_vals, indices, V_piecewise

vars == <<pc, raised, unit, val, V_converted,
          xi, a, L, N, voisinage, V, summed, j_c,
          x, V_continuous, n_marches, x_marches, V_marches, x_edges, mask,
          x_vals, indices, V_piecewise>>

convVars == <<unit, val, V_converted>>
vtVars == <<xi, a, L, N, voisinage, V, summed, j_c>>
discVars == <<x, V_continuous, n_marches, x_marches, V_marches, x_edges, mask>>
evalVars == <<x_vals, indices, V_piecewise>>

Init ==
    /\ pc = "main"
    /\ raised = ""
    /\ unit = "eV" /\ val = None /\ V_converted = None
    /\ xi = 0 /\ a = 1 /\ L = 1 /\ N = 1 /\ voisinage = 0
    /\ V = EmptyBag /\ summed = <<>> /\ j_c = 0
    /\ x = <<>> /\ V_continuous = <<>> /\ n_marches = 1
    /\ x_marches = <<>> /\ V_marches = <<>> /\ x_edges = <<>> /\ mask = <<>>
    /\ x_vals = Zero /\ indices = 0 /\ V_piecewise = Zero

\* convert_energy(val) under a unit tag: returns, or raises ValueError
CallConvertEnergy ==
    /\ pc = "main"
    /\ \E u \in Units, v \in Decimals :
          LET r == convert_energy(u, v)
          IN /\ unit' = u /\ val' = v
             /\ V_converted' = r.value
             /\ raised' = r.raised
             /\ pc' = IF r.raised = "" THEN "converted" ELSE "convert_raised"
    /\ UNCHANGED <<vtVars, discVars, evalVars>>

\* V_total(xi, Q, a, L, N, voisinage)
CallVTotal ==
    /\ pc = "main"
    /\ \E l \in 1..MaxL, nb \in 1..MaxN, vois \in 0..MaxVoisinage, soft \in 1..MaxA :
          \E px \in (-MaxL)..((nb + 1) * l + MaxL) :
             LET r == V_total(px, Q, soft, l, nb, vois)
             IN /\ xi' = px /\ a' = soft /\ L' = l /\ N' = nb /\ voisinage' = vois
                /\ V' = r.V /\ summed' = r.summed /\ j_c' = r.j_c
    /\ pc' = "summed"
    /\ UNCHANGED <<raised, convVars, discVars, evalVars>>

\* x_marches, V_marches, x_edges = discretize_potential_with_boundaries(x, V, n)
CallDiscretize ==
    /\ pc = "main"
    /\ \E grid \in Grids, n \in 1..MaxMarches :
          \E vals \in SeqsOf(Samples, Len(grid)) :
             LET r == discretize_potential_with_boundaries(grid, vals, n)
             IN /\ x' = grid /\ V_continuous' = vals /\ n_marches' = n
                /\ x_marches' = r.x_centers /\ V_marches' = r.V_discrete
                /\ x_edges' = r.x_edges /\ mask' = r.masks
    /\ pc' = "discretized"
    /\ UNCHANGED <<raised, convVars, vtVars, evalVars>>

\* V_piecewise = V_discret_function(x_vals, x_edges, V_marches), one query point
CallVDiscretFunction ==
    /\ pc = "discretized"
    /\ \E q \in Queries(x, x_edges, x_marches) :
          LET r == V_discret_function(q, x_edges, V_marches)
          IN /\ x_vals' = q /\ indices' = r.indices /\ V_piecewise' = r.value
             /\ raised' = r.raised
             /\ pc' = IF r.raised = "" THEN "evaluated" ELSE "evaluate_raised"
    /\ UNCHANGED <<convVars, vtVars, discVars>>

Next == CallConvertEnergy \/ CallVTotal \/ CallDiscretize \/ CallVDiscretFunction

Spec == Init /\ [][Next]_vars

\* ---------------------------------------------------------- properties
Discretized == pc \in {"discretized", "evaluated", "evaluate_raised"}
Evaluated == pc \in {"evaluated", "evaluate_raised"}
Summed == pc = "summed"
Converted == pc \in {"converted", "convert_raised"}

n_total == n_marches + 2

\* The i-th edge (i in 0..n+2) of n+2 equal-width bins over [x[0], x[-1]]
EdgeAt(i) == Frac(x[1] * n_total + i * (x[Len(x)] - x[1]), n_total)

\* The samples k (zero-based) lying in the half-open bin i, [edge_i, edge_i+1)
InBin(i) ==
    {k \in 0..(Len(x) - 1) :
        RLe(EdgeAt(i), FromInt(x[k + 1])) /\ RLt(FromInt(x[k + 1]), EdgeAt(i + 1))}

\* The bins whose mask selects sample k (zero-based)
SelectedBy(k) == {i \in 0..(n_total - 1) : mask[i + 1][k + 1]}

RECURSIVE SampleSum(_)
SampleSum(K) ==
    IF K = {} THEN 0
    ELSE LET k == CHOOSE m \in K : TRUE
         IN V_continuous[k + 1] + SampleSum(K \ {k})

SeqRange(s) == {s[k] : k \in 1..Len(s)}

RECURSIVE TermsOver(_, _)
\* The bag of the softened squared distances from p to the charges of J
TermsOver(J, p) ==
    IF J = {} THEN EmptyBag
    ELSE LET j == CHOOSE m \in J : TRUE
         IN SetToBag({[Q |-> Q, r2 |-> (p - (j + 1) * L) * (p - (j + 1) * L) + a * a]})
            (+) TermsOver(J \ {j}, p)

\* C1: the discretizer returns centers and heights of length exactly n+2, and
\* the heights of bin 0 and bin n+1 are exactly 0 whatever V holds there.
C1_BoundaryBinsZero ==
    Discretized =>
        /\ Len(x_marches) = n_marches + 2
        /\ Len(V_marches) = n_marches + 2
        /\ V_marches[1] = Zero
        /\ V_marches[n_marches + 2] = Zero

\* C1 witness: a discretization where the first sample is non-zero and a
\* non-zero sample lies in the last bin.
C1_Witness ==
    /\ pc = "discretized"
    /\ V_continuous[1] # 0
    /\ \E k \in InBin(n_marches + 1) : V_continuous[k + 1] # 0

\* C2: round trip: the edges are uniformly spaced, there is one more edge than
\* heights, every center is the midpoint of its bin, and evaluating the
\* piecewise function at the center of bin i returns bin i and its height.
C2_RoundTrip ==
    /\ Discretized =>
          /\ Len(x_edges) = Len(V_marches) + 1
          /\ \A i \in 0..n_total : REq(x_edges[i + 1], EdgeAt(i))
          /\ \A i \in 0..(n_total - 1) :
                REq(RAdd(x_marches[i + 1], x_marches[i + 1]), RAdd(EdgeAt(i), EdgeAt(i + 1)))
    /\ Evaluated =>
          \A i \in 0..(n_total - 1) :
             REq(x_vals, x_marches[i + 1]) =>
                /\ raised = ""
                /\ indices = i
                /\ V_piecewise = V_marches[i + 1]

\* C2 witness: the piecewise function evaluated at the center of an interior
\* bin whose height is a non-zero mean.
C2_Witness ==
    /\ pc = "evaluated"
    /\ \E i \in 1..n_marches :
          /\ x_vals = x_marches[i + 1]
          /\ ~IsNaN(V_marches[i + 1])
          /\ V_marches[i + 1].num # 0

\* C3: clamping: a query left of edges[0] returns heights[0], a query at or
\* right of edges[-1] returns the last height, and no query raises.
C3_Clamping ==
    /\ pc # "evaluate_raised"
    /\ Evaluated =>
          /\ raised = ""
          /\ RLt(x_vals, x_edges[1]) =>
                indices = 0 /\ V_piecewise = V_marches[1]
          /\ RLe(x_edges[Len(x_edges)], x_vals) =>
                indices = Len(V_marches) - 1 /\ V_piecewise = V_marches[Len(V_marches)]

\* C3 witness: a query exactly at the last edge.
C3_Witness ==
    /\ pc = "evaluated"
    /\ REq(x_vals, x_edges[Len(x_edges)])
    /\ indices = n_marches + 1

\* C3 second case reached as well: a query far to the left of the first edge.
C3_WitnessLeft ==
    /\ pc = "evaluated"
    /\ RLt(x_vals, RAdd(x_edges[1], FromInt(-50)))

\* C4: saturation: once voisinage >= N-1 every charge 0..N-1 contributes
\* exactly once, the result is the full sum over all charges, and a larger
\* voisinage gives the same result.
C4_Saturation ==
    (Summed /\ voisinage >= N - 1) =>
        /\ SeqRange(summed) = 0..(N - 1)
        /\ Len(summed) = N
        /\ V = TermsOver(0..(N - 1), xi)
        /\ \A more \in voisinage..(MaxVoisinage + 2) :
              V_total(xi, Q, a, L, N, more).V = V

\* C4 witness: voisinage exactly N-1 with the central charge at the lattice end.
C4_Witness ==
    /\ Summed
    /\ N >= 3
    /\ voisinage = N - 1
    /\ j_c = 0

\* C5: symmetry: with every charge included, the potential at midpoint + d
\* equals the potential at midpoint - d, midpoint = (N+1)*L/2: the bag of
\* softened distances is the same at xi and at (N+1)*L - xi.
C5_Symmetry ==
    (Summed /\ voisinage >= N - 1) =>
        V = V_total((N + 1) * L - xi, Q, a, L, N, voisinage).V

\* C5 witness: a point off the midpoint of a lattice of at least two charges.
C5_Witness ==
    /\ Summed
    /\ N >= 2
    /\ voisinage >= N - 1
    /\ 2 * xi # (N + 1) * L
    /\ 0 < xi /\ xi < (N + 1) * L

\* C6: an interior bin holding no sample never yields an undefined height
\* (the mean of an empty set) in the returned heights.
C6_NoUndefinedHeight ==
    Discretized => \A i \in 1..Len(V_marches) : ~IsNaN(V_marches[i])

\* C7: convert_energy returns the value unchanged under "eV", the value times
\* the elementary charge under "J", and raises without a value otherwise.
C7_UnitConversion ==
    Converted =>
        /\ unit = "eV" => (pc = "converted" /\ raised = "" /\ V_converted = val)
        /\ unit = "J" =>
              /\ pc = "converted" /\ raised = ""
              /\ V_converted.m = val.m * e_mantissa
              /\ V_converted.e10 = val.e10 + e_exp10
        /\ unit \notin {"eV", "J"} =>
              (pc = "convert_raised" /\ raised = "ValueError" /\ V_converted = None)

\* C7 witness: convert_energy(1.0) under "J".
C7_Witness ==
    /\ pc = "converted"
    /\ unit = "J"
    /\ val = Dec(1, 0)

\* C7 error case reached as well.
C7_WitnessRaised == pc = "convert_raised" /\ unit = "xyz"

\* C8 (as stated): the final bin is closed on the right and selects the last
\* sample x[-1], so every sample is selected by exactly one bin.
C8_LastBinClosed ==
    Discretized =>
        /\ mask[n_total][Len(x)]
        /\ \A k \in 0..(Len(x) - 1) : Cardinality(SelectedBy(k)) = 1

\* C8 (amended): every bin, the final one included, selects exactly the
\* samples of its half-open interval [start, end); the last sample x[-1] is
\* selected by no bin and every other sample by exactly one bin.
C8_HalfOpenBins ==
    Discretized =>
        /\ \A i \in 0..(n_total - 1) :
              {k \in 0..(Len(x) - 1) : mask[i + 1][k + 1]} = InBin(i)
        /\ SelectedBy(Len(x) - 1) = {}
        /\ \A k \in 0..(Len(x) - 2) : Cardinality(SelectedBy(k)) = 1

\* C8 witness: a grid with a sample inside the final bin besides x[-1].
C8_Witness ==
    /\ pc = "discretized"
    /\ Len(x) >= 3
    /\ SelectedBy(Len(x) - 2) = {n_marches + 1}

\* C9: the height of an interior bin holding at least one sample is the
\* arithmetic mean of exactly the samples V[k] with edges[i] <= x[k] < edges[i+1].
C9_InteriorMean ==
    Discretized =>
        \A i \in 1..n_marches :
           InBin(i) # {} =>
              REq(V_marches[i + 1], Frac(SampleSum(InBin(i)), Cardinality(InBin(i))))

\* C9 witness: an interior bin holding two samples of different values, with a
\* sample of yet another value in the bin to its left and in the bin to its right.
C9_Witness ==
    /\ pc = "discretized"
    /\ \E i \in 1..n_marches :
          /\ Cardinality(InBin(i)) >= 2
          /\ \E k, m \in InBin(i) : V_continuous[k + 1] # V_continuous[m + 1]
          /\ \E k \in InBin(i - 1) : \A m \in InBin(i) : V_continuous[m + 1] # V_continuous[k + 1]
          /\ \E k \in 0..(Len(x) - 1) :
                /\ k \notin InBin(i) /\ k \notin InBin(i - 1)
                /\ \A m \in InBin(i) : V_continuous[m + 1] # V_continuous[k + 1]

\* C9 edge case reached as well: a sample exactly on the right edge of an
\* interior bin, with a value different from the bin's mean.
C9_WitnessOnEdge ==
    /\ pc = "discretized"
    /\ \E i \in 1..n_marches : \E k \in 0..(Len(x) - 1) :
          /\ REq(FromInt(x[k + 1]), EdgeAt(i + 1))
          /\ InBin(i) # {}
          /\ ~REq(V_marches[i + 1], FromInt(V_continuous[k + 1]))

\* C10: the clamped index j_c = clamp(floor(x/L - 0.5), 0, N-1) is the index
\* of a charge nearest to x, and the charges summed are exactly the indices of
\* [j_c - voisinage, j_c + voisinage] lying in [0, N-1], each once, never none.
C10_NearestWindow ==
    Summed =>
        /\ j_c \in 0..(N - 1)
        /\ IF 2 * xi - L < 0 THEN j_c = 0
           ELSE IF 2 * xi - L >= 2 * L * (N - 1) THEN j_c = N - 1
           ELSE 2 * L * j_c <= 2 * xi - L /\ 2 * xi - L < 2 * L * (j_c + 1)
        /\ \A j \in 0..(N - 1) :
              Abs(xi - (j_c + 1) * L) <= Abs(xi - (j + 1) * L)
        /\ SeqRange(summed) =
              {j \in (j_c - voisinage)..(j_c + voisinage) : 0 <= j /\ j < N}
        /\ Len(summed) = Cardinality(SeqRange(summed))
        /\ summed # <<>>

\* C10 witness: a point left of the lattice whose window reaches below index 0
\* and stops short of the last charge.
C10_Witness ==
    /\ Summed
    /\ xi < 0
    /\ voisinage = 1
    /\ N = 3
    /\ summed = <<0, 1>>

\* C10 second case reached: an interior point strictly nearer to charge 1.
C10_WitnessInterior ==
    /\ Summed
    /\ N = 3 /\ L = 2 /\ xi = 4
    /\ j_c = 1

====
